---- MODULE Spec2Model ----
(***************************************************************************)
(* Model of EventCalendar (src/event_calendar.py).  The calendar is a     *)
(* DataFrame indexed by one-minute slots 0..Horizon (inclusive, as        *)
(* pd.date_range(start, start + num_days, freq='1T')) with one column per *)
(* room; every cell is a Python list of event dicts.  Timestamps are      *)
(* minutes since the calendar origin.  Each method is a pure operator     *)
(* returning the new grid and the outcome of the call.                    *)
(***************************************************************************)
EXTENDS Integers, Sequences, FiniteSets, TLC

\* last label of the grid (the grid spans Horizon one-minute steps)
Horizon == 1
\* largest duration (minutes) passed to add_event / edit_event
MaxDur == 2

Rooms == {"R1", "R2"}
Names == {"X", "Y"}

\* Python None for optional arguments
NoneStr == "None"
NoneInt == -100

\* labels of self.calendar.index
Index == 0..Horizon
\* timestamps callers may pass: the grid plus one minute on either side
TimeInputs == -1..(Horizon + 1)
Durations == 0..MaxDur

\* the dict built in add_event / edit_event / copy_event
Event(n, s, e) == [event_name |-> n, start_time |-> s, end_time |-> e]

NoEvent == Event(NoneStr, NoneInt, NoneInt)

\* pd.date_range(start=s, end=e, freq='1T') as an ordered list of minutes
DateRange(s, e) == [i \in 1..(IF e >= s THEN e - s + 1 ELSE 0) |-> s + i - 1]

\* cells of one room at a list of slots
Cells(slots, room) == {<<slots[i], room>> : i \in 1..Len(slots)}

\* the grid after __init__: applymap(lambda x: []) gives every cell an empty list
EmptyGrid == [c \in Index \X Rooms |-> <<>>]

\* EventCalendar.find_event: first event of the cell with that name
find_event(c, t, room, name) ==
    LET matches == SelectSeq(c[<<t, room>>], LAMBDA e : e.event_name = name)
    IN IF matches = <<>> THEN NoEvent ELSE matches[1]

\* a cell blocks a write: any event at all (ignore = None, as in add_event
\* and copy_event) or an event not named ignore (edit_event's any(...))
Busy(c, t, room, ignore) ==
    IF ignore = NoneStr THEN c[<<t, room>>] # <<>>
    ELSE \E i \in 1..Len(c[<<t, room>>]) : c[<<t, room>>][i].event_name # ignore

\* first failure of a validation loop over slots: a label missing from the
\* index (the grid's domain) raises KeyError in .at, a busy cell raises /
\* returns
RECURSIVE ScanFrom(_, _, _, _, _)
ScanFrom(c, slots, i, room, ignore) ==
    IF i > Len(slots) THEN "none"
    ELSE IF <<slots[i], room>> \notin DOMAIN c THEN "KeyError"
    ELSE IF Busy(c, slots[i], room, ignore) THEN "busy"
    ELSE ScanFrom(c, slots, i + 1, room, ignore)

Result(c, r) == [cal |-> c, res |-> r]

\* the write pass of add_event / edit_event: self.calendar.at[t, room] = [event]
Overwrite(c, cells, ev) == [x \in DOMAIN c |-> IF x \in cells THEN <<ev>> ELSE c[x]]

\* the write pass of copy_event: self.calendar.at[t, room].append(event)
AppendAll(c, cells, ev) == [x \in DOMAIN c |-> IF x \in cells THEN Append(c[x], ev) ELSE c[x]]

\* add_event without its validation pass: writes over busy cells
add_event_nocheck(c, room, start, name, dur) ==
    LET slots == DateRange(start, start + dur - 1)
        ev == Event(name, start, start + dur)
        scan == ScanFrom(c, slots, 1, room, NoneStr)
    IN IF scan # "KeyError"
       THEN Result(Overwrite(c, Cells(slots, room), ev), "ok")
       ELSE Result(c, "KeyError")

\* EventCalendar.add_event
add_event(c, room, start, name, dur) ==
    LET slots == DateRange(start, start + dur - 1)
        ev == Event(name, start, start + dur)
        scan == ScanFrom(c, slots, 1, room, NoneStr)
    IN CASE scan = "none" ->
              Result(Overwrite(c, Cells(slots, room), ev), "ok")
         [] scan = "busy" -> Result(c, "ValueError")
         [] OTHER -> Result(c, "KeyError")

\* remove_event emptying the cell whatever the names in it
RemoveCell_clear(c, room, date, name) == [c EXCEPT ![<<date, room>>] = <<>>]

\* the cell assignment of remove_event: the cell filtered by name
RemoveCell(c, room, date, name) ==
    [c EXCEPT ![<<date, room>>] = SelectSeq(c[<<date, room>>], LAMBDA e : e.event_name # name)]

\* EventCalendar.remove_event
remove_event(c, room, date, name) ==
    IF <<date, room>> \in DOMAIN c THEN Result(RemoveCell(c, room, date, name), "ok")
    ELSE Result(c, "KeyError")

\* edit_event whose overlap check also counts events of the original name
edit_event_noignore(c, odt, oroom, oname, nroom0, nstart0, nname0, ndur0) ==
    LET orig == find_event(c, odt, oroom, oname)
        c1 == RemoveCell(c, oroom, odt, oname)
        nroom == IF nroom0 = NoneStr THEN oroom ELSE nroom0
        nstart == IF nstart0 = NoneInt THEN odt ELSE nstart0
        nname == IF nname0 = NoneStr THEN oname ELSE nname0
        ndur == IF ndur0 = NoneInt THEN orig.end_time - orig.start_time ELSE ndur0
        slots == DateRange(nstart, nstart + ndur - 1)
        ev == Event(nname, nstart, nstart + ndur)
        scan == ScanFrom(c1, slots, 1, nroom, NoneStr)
    IN CASE <<odt, oroom>> \notin DOMAIN c -> Result(c, "KeyError")
         [] orig = NoEvent -> Result(c, "ValueError")
         [] scan = "KeyError" -> Result(c1, "KeyError")
         [] scan = "busy" -> Result(c1, "ValueError")
         [] OTHER ->
              Result(Overwrite(c1, Cells(slots, nroom), ev), "ok")

\* edit_event without the not-found check
edit_event_nocheck(c, odt, oroom, oname, nroom0, nstart0, nname0, ndur0) ==
    LET orig == find_event(c, odt, oroom, oname)
        c1 == RemoveCell(c, oroom, odt, oname)
        nroom == IF nroom0 = NoneStr THEN oroom ELSE nroom0
        nstart == IF nstart0 = NoneInt THEN odt ELSE nstart0
        nname == IF nname0 = NoneStr THEN oname ELSE nname0
        ndur == IF ndur0 = NoneInt THEN orig.end_time - orig.start_time ELSE ndur0
        slots == DateRange(nstart, nstart + ndur - 1)
        ev == Event(nname, nstart, nstart + ndur)
        scan == ScanFrom(c1, slots, 1, nroom, oname)
    IN CASE <<odt, oroom>> \notin DOMAIN c -> Result(c, "KeyError")
         [] scan = "KeyError" -> Result(c1, "KeyError")
         [] scan = "busy" -> Result(c1, "ValueError")
         [] OTHER ->
              Result(Overwrite(c1, Cells(slots, nroom), ev), "ok")

\* EventCalendar.edit_event
edit_event(c, odt, oroom, oname, nroom0, nstart0, nname0, ndur0) ==
    LET orig == find_event(c, odt, oroom, oname)
        c1 == RemoveCell(c, oroom, odt, oname)
        nroom == IF nroom0 = NoneStr THEN oroom ELSE nroom0
        nstart == IF nstart0 = NoneInt THEN odt ELSE nstart0
        nname == IF nname0 = NoneStr THEN oname ELSE nname0
        ndur == IF ndur0 = NoneInt THEN orig.end_time - orig.start_time ELSE ndur0
        slots == DateRange(nstart, nstart + ndur - 1)
        ev == Event(nname, nstart, nstart + ndur)
        scan == ScanFrom(c1, slots, 1, nroom, oname)
    IN CASE <<odt, oroom>> \notin DOMAIN c -> Result(c, "KeyError")
         [] orig = NoEvent -> Result(c, "ValueError")
         [] scan = "KeyError" -> Result(c1, "KeyError")
         [] scan = "busy" -> Result(c1, "ValueError")
         [] OTHER ->
              Result(Overwrite(c1, Cells(slots, nroom), ev), "ok")

\* copy_event without the occupancy check
copy_event_nocheck(c, odt, oroom, name, nroom0, nstart0) ==
    LET orig == find_event(c, odt, oroom, name)
        nroom == IF nroom0 = NoneStr THEN oroom ELSE nroom0
        \* the default is dead code: None is not in the index and was rejected
        nstart == IF nstart0 = NoneInt THEN odt ELSE nstart0
        dur == orig.end_time - orig.start_time
        slots == DateRange(nstart, nstart + dur - 1)
        ev == Event(name, nstart, nstart + dur)
        scan == ScanFrom(c, slots, 1, nroom, NoneStr)
    IN CASE <<nstart0, oroom>> \notin DOMAIN c -> Result(c, "ValueError")
         [] <<odt, oroom>> \notin DOMAIN c -> Result(c, "KeyError")
         [] orig = NoEvent -> Result(c, "ValueError")
         [] scan = "KeyError" -> Result(c, "KeyError")
         \* conflict: logging.warning and return, no exception
         [] OTHER ->
              Result(AppendAll(c, Cells(slots, nroom), ev), "ok")

\* copy_event keeping the source's end time
copy_event_keepend(c, odt, oroom, name, nroom0, nstart0) ==
    LET orig == find_event(c, odt, oroom, name)
        nroom == IF nroom0 = NoneStr THEN oroom ELSE nroom0
        \* the default is dead code: None is not in the index and was rejected
        nstart == IF nstart0 = NoneInt THEN odt ELSE nstart0
        dur == orig.end_time - orig.start_time
        slots == DateRange(nstart, nstart + dur - 1)
        ev == Event(name, nstart, orig.end_time)
        scan == ScanFrom(c, slots, 1, nroom, NoneStr)
    IN CASE <<nstart0, oroom>> \notin DOMAIN c -> Result(c, "ValueError")
         [] <<odt, oroom>> \notin DOMAIN c -> Result(c, "KeyError")
         [] orig = NoEvent -> Result(c, "ValueError")
         [] scan = "KeyError" -> Result(c, "KeyError")
         \* conflict: logging.warning and return, no exception
         [] scan = "busy" -> Result(c, "conflict")
         [] OTHER ->
              Result(AppendAll(c, Cells(slots, nroom), ev), "ok")

\* copy_event whose range check also admits the label one past the end
copy_event_offbyone(c, odt, oroom, name, nroom0, nstart0) ==
    LET orig == find_event(c, odt, oroom, name)
        nroom == IF nroom0 = NoneStr THEN oroom ELSE nroom0
        \* the default is dead code: None is not in the index and was rejected
        nstart == IF nstart0 = NoneInt THEN odt ELSE nstart0
        dur == orig.end_time - orig.start_time
        slots == DateRange(nstart, nstart + dur - 1)
        ev == Event(name, nstart, nstart + dur)
        scan == ScanFrom(c, slots, 1, nroom, NoneStr)
    IN CASE <<nstart0, oroom>> \notin DOMAIN c /\ <<nstart0 - 1, oroom>> \notin DOMAIN c -> Result(c, "ValueError")
         [] <<odt, oroom>> \notin DOMAIN c -> Result(c, "KeyError")
         [] orig = NoEvent -> Result(c, "ValueError")
         [] scan = "KeyError" -> Result(c, "KeyError")
         \* conflict: logging.warning and return, no exception
         [] scan = "busy" -> Result(c, "conflict")
         [] OTHER ->
              Result(AppendAll(c, Cells(slots, nroom), ev), "ok")

\* EventCalendar.copy_event
copy_event(c, odt, oroom, name, nroom0, nstart0) ==
    LET orig == find_event(c, odt, oroom, name)
        nroom == IF nroom0 = NoneStr THEN oroom ELSE nroom0
        \* the default is dead code: None is not in the index and was rejected
        nstart == IF nstart0 = NoneInt THEN odt ELSE nstart0
        dur == orig.end_time - orig.start_time
        slots == DateRange(nstart, nstart + dur - 1)
        ev == Event(name, nstart, nstart + dur)
        scan == ScanFrom(c, slots, 1, nroom, NoneStr)
    IN CASE <<nstart0, oroom>> \notin DOMAIN c -> Result(c, "ValueError")
         [] <<odt, oroom>> \notin DOMAIN c -> Result(c, "KeyError")
         [] orig = NoEvent -> Result(c, "ValueError")
         [] scan = "KeyError" -> Result(c, "KeyError")
         \* conflict: logging.warning and return, no exception
         [] scan = "busy" -> Result(c, "conflict")
         [] OTHER ->
              Result(AppendAll(c, Cells(slots, nroom), ev), "ok")

(***************************************************************************)
(* State: cal is self.calendar; op describes the last call (its arguments *)
(* only for a recorded call, final = TRUE); prev is the grid before the   *)
(* recorded call.                                                         *)
(***************************************************************************)
VARIABLES cal, op, prev
vars == <<cal, op, prev>>

Call(k, room, t, name, nroom, nstart, nname, ndur, res) ==
    [kind |-> k, room |-> room, slot |-> t, name |-> name, nroom |-> nroom,
     nstart |-> nstart, nname |-> nname, ndur |-> ndur, res |-> res, final |-> TRUE]

\* a call whose arguments are not kept
Anon(k, res) ==
    [Call(k, NoneStr, NoneInt, NoneStr, NoneStr, NoneInt, NoneStr, NoneInt, res) EXCEPT !.final = FALSE]

Init ==
    /\ cal = EmptyGrid
    /\ op = Anon("init", "ok")
    /\ prev = EmptyGrid

\* a call of the grid specification: only the grid changes
Do(r) == cal' = r.cal /\ UNCHANGED <<op, prev>>

(* The grid steps enumerate the calls with distinct outcomes.  A call that  *)
(* raises before writing (a timestamp outside the index, a source not      *)
(* found, a range leaving the grid in add_event or copy_event) leaves the  *)
(* grid unchanged: a stuttering step.  An edit_event whose new range       *)
(* leaves the grid raises KeyError after the removal, the same step as an  *)
(* edit to an empty range.  An omitted target argument is the same call as *)
(* passing the original's value (room, located slot, name, end - start).   *)
AddEvent == \E room \in Rooms, start \in Index, name \in Names, dur \in 1..MaxDur :
                /\ start + dur - 1 <= Horizon
                /\ Do(add_event(cal, room, start, name, dur))

RemoveEvent == \E room \in Rooms, date \in Index, name \in Names :
                   Do(remove_event(cal, room, date, name))

EditEvent == \E odt \in Index, oroom \in Rooms, oname \in Names :
                 /\ find_event(cal, odt, oroom, oname) # NoEvent
                 /\ \E ndur \in Durations :
                      IF ndur = 0
                      THEN Do(edit_event(cal, odt, oroom, oname, oroom, odt, oname, 0))
                      ELSE \E nroom \in Rooms, nstart \in Index, nname \in Names :
                             /\ nstart + ndur - 1 <= Horizon
                             /\ Do(edit_event(cal, odt, oroom, oname, nroom, nstart, nname, ndur))

CopyEvent == \E odt \in Index, oroom \in Rooms, name \in Names :
                 /\ find_event(cal, odt, oroom, name) # NoEvent
                 /\ \E nroom \in Rooms, nstart \in Index :
                      Do(copy_event(cal, odt, oroom, name, nroom, nstart))

Next == AddEvent \/ RemoveEvent \/ EditEvent \/ CopyEvent

Spec == Init /\ [][Next]_vars

(***************************************************************************)
(* Recorded calls: from a grid built by earlier calls, one call whose      *)
(* arguments and outcome are kept in op and whose pre-state is kept in    *)
(* prev.  No call follows a recorded one.                                 *)
(***************************************************************************)
Rec(r, k, room, t, name, nroom, nstart, nname, ndur) ==
    /\ cal' = r.cal
    /\ op' = Call(k, room, t, name, nroom, nstart, nname, ndur, r.res)
    /\ prev' = cal

\* grid built before the recorded call
Setup == ~op.final /\ (AddEvent \/ RemoveEvent \/ CopyEvent)
SetupAdd == ~op.final /\ AddEvent

AddEventCall ==
    /\ ~op.final
    /\ \E room \in Rooms, start \in TimeInputs, name \in Names, dur \in Durations :
         Rec(add_event(cal, room, start, name, dur), "add", room, start, name, NoneStr, NoneInt, NoneStr, dur)

RemoveEventCall ==
    /\ ~op.final
    /\ \E room \in Rooms, date \in TimeInputs, name \in Names :
         Rec(remove_event(cal, room, date, name), "remove", room, date, name, NoneStr, NoneInt, NoneStr, NoneInt)

\* a call that raises at find_event never reads its target arguments; it is
\* recorded with them omitted
EditEventCall ==
    /\ ~op.final
    /\ \E odt \in TimeInputs, oroom \in Rooms, oname \in Names :
         IF odt \in Index /\ find_event(cal, odt, oroom, oname) # NoEvent
         THEN \E nroom \in Rooms \cup {NoneStr}, nstart \in TimeInputs \cup {NoneInt},
                 nname \in Names \cup {NoneStr}, ndur \in Durations \cup {NoneInt} :
                Rec(edit_event(cal, odt, oroom, oname, nroom, nstart, nname, ndur), "edit",
                    oroom, odt, oname, nroom, nstart, nname, ndur)
         ELSE Rec(edit_event(cal, odt, oroom, oname, NoneStr, NoneInt, NoneStr, NoneInt), "edit",
                  oroom, odt, oname, NoneStr, NoneInt, NoneStr, NoneInt)

CopyEventCall ==
    /\ ~op.final
    /\ \E odt \in TimeInputs, oroom \in Rooms, name \in Names,
          nroom \in Rooms \cup {NoneStr}, nstart \in TimeInputs \cup {NoneInt} :
         Rec(copy_event(cal, odt, oroom, name, nroom, nstart), "copy",
             oroom, odt, name, nroom, nstart, NoneStr, NoneInt)

NextAdd == SetupAdd \/ AddEventCall
SpecAdd == Init /\ [][NextAdd]_vars

NextRemove == Setup \/ RemoveEventCall
SpecRemove == Init /\ [][NextRemove]_vars

NextEdit == SetupAdd \/ EditEventCall
SpecEdit == Init /\ [][NextEdit]_vars

NextCopy == SetupAdd \/ CopyEventCall
SpecCopy == Init /\ [][NextCopy]_vars

NextAddCopy == SetupAdd \/ AddEventCall \/ CopyEventCall
SpecAddCopy == Init /\ [][NextAddCopy]_vars

(***************************************************************************)
(* Extending an event in place: a grid of its own size, built by           *)
(* add_event, then one edit_event at a located slot that passes only a new *)
(* duration and possibly a new name (new_room, new_start_datetime omitted).*)
(***************************************************************************)
\* last label of the grid of this scenario
ExtHorizon == 2
ExtIndex == 0..ExtHorizon
ExtTimes == -1..(ExtHorizon + 1)
ExtDurations == 0..(ExtHorizon + 1)
ExtGrid == [c \in ExtIndex \X Rooms |-> <<>>]

InitExt ==
    /\ cal = ExtGrid
    /\ op = Anon("init", "ok")
    /\ prev = ExtGrid

\* add_event calls whose range fits the grid (the others leave it unchanged)
SetupAddExt ==
    /\ ~op.final
    /\ \E room \in Rooms, start \in ExtIndex, name \in Names, dur \in 1..(ExtHorizon + 1) :
         /\ start + dur - 1 <= ExtHorizon
         /\ Do(add_event(cal, room, start, name, dur))

ExtendEventCall ==
    /\ ~op.final
    /\ \E odt \in ExtTimes, oroom \in Rooms, oname \in Names :
         IF <<odt, oroom>> \in DOMAIN cal /\ find_event(cal, odt, oroom, oname) # NoEvent
         THEN \E nname \in Names \cup {NoneStr}, ndur \in ExtDurations \cup {NoneInt} :
                Rec(edit_event(cal, odt, oroom, oname, NoneStr, NoneInt, nname, ndur), "edit",
                    oroom, odt, oname, NoneStr, NoneInt, nname, ndur)
         ELSE Rec(edit_event(cal, odt, oroom, oname, NoneStr, NoneInt, NoneStr, NoneInt), "edit",
                  oroom, odt, oname, NoneStr, NoneInt, NoneStr, NoneInt)

NextExtend == SetupAddExt \/ ExtendEventCall
SpecExtend == InitExt /\ [][NextExtend]_vars

(***************************************************************************)
(* Properties                                                             *)
(***************************************************************************)
Contains(seq, e) == \E i \in 1..Len(seq) : seq[i] = e

\* the event the recorded call located at (slot, room, name) before it ran
Located == IF <<op.slot, op.room>> \in DOMAIN prev THEN find_event(prev, op.slot, op.room, op.name) ELSE NoEvent

\* C1: no-overlap -- every (slot, room) cell holds events of at most one name
NoOverlap ==
    \A c \in DOMAIN cal : Cardinality({cal[c][i].event_name : i \in 1..Len(cal[c])}) <= 1

\* C1 witness: one room holds events of both names
NoOverlapWitness ==
    \E r \in Rooms, t1, t2 \in Index :
        /\ cal[<<t1, r>>] # <<>> /\ cal[<<t2, r>>] # <<>>
        /\ cal[<<t1, r>>][1].event_name # cal[<<t2, r>>][1].event_name

\* C2: coverage consistency -- every event in a cell of room R is held by
\* every slot of R in [start, end)
CoverageConsistency ==
    \A c \in DOMAIN cal : \A i \in 1..Len(cal[c]) :
        \A t \in cal[c][i].start_time..(cal[c][i].end_time - 1) :
            t \in Index /\ Contains(cal[<<t, c[2]>>], cal[c][i])

\* C3: a remove_event that finds the event at the queried cell leaves no slot
\* of the room holding that event
RemoveClearsRange ==
    (op.kind = "remove" /\ Located # NoEvent)
        => \A t \in Index : ~Contains(cal[<<t, op.room>>], Located)

\* C4: tolerant remove -- remove_event on a grid cell holding no event of that
\* name raises nothing and leaves the whole grid unchanged
TolerantRemove ==
    (op.kind = "remove" /\ op.slot \in Index /\ Located = NoEvent)
        => op.res = "ok" /\ cal = prev

\* C4 witness: the queried cell holds an event of another name
TolerantRemoveWitness ==
    /\ op.kind = "remove" /\ op.slot \in Index /\ Located = NoEvent
    /\ prev[<<op.slot, op.room>>] # <<>>

\* the slots add_event covers in the recorded call
AddRange == {op.slot + i : i \in 0..(op.ndur - 1)}
AddBusy == \E t \in AddRange : t \in Index /\ prev[<<t, op.room>>] # <<>>

\* C5 (as claimed): an add_event whose range meets a non-empty slot fails
\* with the overlap error and mutates no cell; one whose slots are all empty
\* (and in the grid) writes the event into every slot of the range
AddAtomicClaimed ==
    op.kind = "add" =>
        /\ AddBusy => op.res = "ValueError" /\ cal = prev
        /\ (~AddBusy /\ AddRange \subseteq Index) =>
             \A t \in AddRange : cal[<<t, op.room>>] = <<Event(op.name, op.slot, op.slot + op.ndur)>>

\* C5 (amended): an add_event whose range meets a non-empty slot raises and
\* mutates no cell -- the overlap ValueError, or KeyError when a slot of the
\* range before the first busy one lies outside the grid; one whose slots all
\* lie in the grid and are empty writes the event into every slot
AddAtomic ==
    op.kind = "add" =>
        /\ AddBusy =>
             /\ cal = prev
             /\ op.res = IF \E t \in AddRange :
                              /\ t \notin Index
                              /\ \A u \in AddRange : (u \in Index /\ prev[<<u, op.room>>] # <<>>) => t < u
                         THEN "KeyError" ELSE "ValueError"
        /\ (~AddBusy /\ AddRange \subseteq Index) =>
             \A t \in AddRange : cal[<<t, op.room>>] = <<Event(op.name, op.slot, op.slot + op.ndur)>>

\* C5 witness: an add_event rejected for overlap with an earlier event
AddAtomicWitness == op.kind = "add" /\ AddBusy /\ op.res = "ValueError" /\ op.ndur >= 1


\* the effective new name of the recorded edit_event
EditName == IF op.nname = NoneStr THEN op.name ELSE op.nname

\* the recorded edit_event located an event [T, T+d) added by add_event at T
\* (every slot of its range holds it) and asks only for a longer duration d2
\* (and possibly a new name), with [T+d, T+d2) empty and inside the grid
EditExtendCase ==
    LET e == Located
        T == op.slot
        R == op.room
    IN /\ op.kind = "edit" /\ op.nroom = NoneStr /\ op.nstart = NoneInt
       /\ e # NoEvent /\ e.start_time = T
       /\ op.ndur # NoneInt /\ op.ndur > e.end_time - e.start_time
       /\ \A t \in T..(e.end_time - 1) : prev[<<t, R>>] = <<e>>
       /\ \A t \in e.end_time..(T + op.ndur - 1) : <<t, R>> \in DOMAIN prev /\ prev[<<t, R>>] = <<>>

\* C6: edit round-trip -- such an edit leaves every slot of [T, T+d2) holding
\* the edited event [T, T+d2) and no slot of the room holding the old event
EditRoundTrip ==
    EditExtendCase =>
        /\ \A t \in op.slot..(op.slot + op.ndur - 1) :
               cal[<<t, op.room>>] = <<Event(EditName, op.slot, op.slot + op.ndur)>>
        /\ \A x \in DOMAIN cal : x[2] = op.room => ~Contains(cal[x], Located)

\* C6 witness: an event of several slots extended in place, so the slots
\* after the located one still hold it when the overlap check runs
EditRoundTripWitness ==
    EditExtendCase /\ op.res = "ok" /\ Located.end_time - Located.start_time >= 2

\* C7: a failed edit_event of a located event (overlap or target out of the
\* grid) leaves the grid unchanged, so find_event still returns the original
EditFailRestores ==
    (op.kind = "edit" /\ Located # NoEvent /\ op.res \in {"ValueError", "KeyError"})
        => /\ find_event(cal, op.slot, op.room, op.name) = Located
           /\ cal = prev

\* C8: edit_event on a grid cell holding no event of that name raises the
\* not-found ValueError and mutates no cell
EditNotFound ==
    (op.kind = "edit" /\ op.slot \in Index /\ Located = NoEvent)
        => op.res = "ValueError" /\ cal = prev

\* C8 witness: the cell holds an event of another name
EditNotFoundWitness ==
    /\ op.kind = "edit" /\ op.slot \in Index /\ Located = NoEvent
    /\ prev[<<op.slot, op.room>>] # <<>>

\* effective target of the recorded edit_event
EditRoom == IF op.nroom = NoneStr THEN op.room ELSE op.nroom
EditStart == IF op.nstart = NoneInt THEN op.slot ELSE op.nstart
EditDur == IF op.ndur = NoneInt THEN Located.end_time - Located.start_time ELSE op.ndur

\* C9: a successful edit_event that moves the event to another room or start
\* leaves no slot of the original room holding the original event, and every
\* slot of the new range holds the edited event
EditMoveRemovesOriginal ==
    (op.kind = "edit" /\ op.res = "ok" /\ Located # NoEvent
     /\ (EditRoom # op.room \/ EditStart # Located.start_time))
        => /\ \A t \in Index : ~Contains(cal[<<t, op.room>>], Located)
           /\ \A t \in EditStart..(EditStart + EditDur - 1) :
                  cal[<<t, EditRoom>>] = <<Event(EditName, EditStart, EditStart + EditDur)>>

\* effective target of the recorded copy_event
CopyRoom == IF op.nroom = NoneStr THEN op.room ELSE op.nroom
CopyDur == Located.end_time - Located.start_time

\* C10: copy is non-destructive -- a copy_event that copies leaves every slot
\* holding the source event unchanged (find_event still returns it) and writes
\* an event named X with the source's duration into every target slot
CopyNonDestructive ==
    (op.kind = "copy" /\ op.res = "ok")
        => /\ find_event(cal, op.slot, op.room, op.name) = Located
           /\ \A c \in DOMAIN prev : Contains(prev[c], Located) => cal[c] = prev[c]
           /\ \A t \in op.nstart..(op.nstart + CopyDur - 1) :
                  cal[<<t, CopyRoom>>] = <<Event(op.name, op.nstart, op.nstart + CopyDur)>>

\* C10 witness: a copy of a multi-slot event
CopyNonDestructiveWitness ==
    op.kind = "copy" /\ op.res = "ok" /\ CopyDur >= 2


\* the target slots of the recorded copy_event, and whether one of them is a
\* non-empty grid cell of the target room
CopyRange == {op.nstart + i : i \in 0..(CopyDur - 1)}
CopyBusy == \E t \in CopyRange : t \in Index /\ prev[<<t, CopyRoom>>] # <<>>

\* the recorded copy_event found its source and its target start is in the grid
CopyTargetCase == op.kind = "copy" /\ Located # NoEvent /\ op.nstart \in Index

\* C11: a copy_event whose target range meets a non-empty cell fails with the
\* overlap ValueError and leaves source and target cells unchanged
CopyConflictFails ==
    (CopyTargetCase /\ CopyBusy) => op.res = "ValueError" /\ cal = prev


\* the start the recorded add_event / copy_event targets, when it is a
\* timestamp outside the grid (before the origin or after origin + horizon)
TargetStart == IF op.kind = "add" THEN op.slot ELSE op.nstart
OutOfRange == op.kind \in {"add", "copy"} /\ TargetStart # NoneInt /\ TargetStart \notin Index

\* C12 (as claimed): add_event / copy_event to a start outside the grid fails
\* with an error and mutates no cell
OutOfRangeRejectedClaimed ==
    OutOfRange => op.res \in {"KeyError", "ValueError"} /\ cal = prev

\* C12 (amended): such a call mutates no cell; copy_event raises its range
\* ValueError, add_event of a positive duration raises KeyError, and an
\* add_event of duration 0 returns without error
OutOfRangeRejected ==
    OutOfRange =>
        /\ cal = prev
        /\ op.kind = "copy" => op.res = "ValueError"
        /\ (op.kind = "add" /\ op.ndur >= 1) => op.res = "KeyError"
        /\ (op.kind = "add" /\ op.ndur = 0) => op.res = "ok"

\* C12 witness: a copy of an existing event to one past the end of the grid
OutOfRangeRejectedWitness ==
    OutOfRange /\ op.kind = "copy" /\ Located # NoEvent /\ op.nstart = Horizon + 1


\* C13: a successful edit_event with new_start omitted writes the edited
\* event at the original event's stored start, with the given duration or
\* the original's end - start
EditDefaultsKept ==
    (op.kind = "edit" /\ op.res = "ok" /\ op.nstart = NoneInt /\ Located # NoEvent)
        => \A t \in Located.start_time..(Located.start_time + EditDur - 1) :
               /\ t \in Index
               /\ cal[<<t, EditRoom>>] = <<Event(EditName, Located.start_time, Located.start_time + EditDur)>>


\* the recorded copy_event omits new_start, finds its source, and the range
\* at the source's start in the target room lies in the grid and is empty
CopyDefaultCase ==
    /\ op.kind = "copy" /\ op.nstart = NoneInt /\ Located # NoEvent
    /\ \A t \in Located.start_time..(Located.end_time - 1) :
           t \in Index /\ prev[<<t, CopyRoom>>] = <<>>

\* C14: such a copy succeeds, duplicating the event at the source's start
CopyDefaultStart ==
    CopyDefaultCase =>
        /\ op.res = "ok"
        /\ \A t \in Located.start_time..(Located.end_time - 1) :
               cal[<<t, CopyRoom>>] = <<Located>>

====
